---- MODULE Spec2Model ----
(***************************************************************************)
(* The emission dashboard script dash.py as a state machine.  One run of   *)
(* the script (a "pass") is a chain of steps: page setup and auto-refresh, *)
(* loading and filtering the detection log, then the four panels.  The     *)
(* detection log and the image folder belong to an external producer, a    *)
(* separate process that appends rows and saves images at any time.        *)
(*                                                                         *)
(* Encodings.  Instants are whole hours since an epoch that falls on a     *)
(* midnight, so the hour of day of t is t % 24.  Coordinates are integers  *)
(* in micro-degrees (30.767 is 30767000).  A mean is kept as the exact     *)
(* fraction sum/cnt.  A cell of the CSV file is empty, a well-formed       *)
(* number (or, in the DateTime column, a well-formed timestamp denoting    *)
(* the instant num) or some other text.  A file name is the sequence of    *)
(* its characters.  A sine is an integer, the sine times 10^9.             *)
(***************************************************************************)
EXTENDS Integers, Sequences, FiniteSets

\* ---------------------------------------------------------------- bounds
\* Largest number of rows the producer appends to the log.
MaxRows == 3

\* ------------------------------------------------------------ configuration
LOG_FILE == "detections_log.csv"
INPUT_FOLDER == "detected_images"
DEFAULT_LAT == 30767000
DEFAULT_LON == 76575000
AUTO_REFRESH_INTERVAL == 30
\* timedelta(hours=24)
WindowHours == 24
\* length of the arrow line, 0.001 degree
scale == 1000
\* marker size of the arrowhead
arrow_size == 14
\* at most six recent images are shown, in three columns
MaxShown == 6
NumColumns == 3

\* ------------------------------------------------------------------- cells
EmptyCell == [kind |-> "empty", num |-> 0, text |-> ""]
NumCell(n) == [kind |-> "num", num |-> n, text |-> ""]
TextCell(s) == [kind |-> "text", num |-> 0, text |-> s]

\* Values of a data frame: NaN / NaT, a number, or a Python string.  A string
\* that spells a number keeps the number in num and has text = "".
NaN == [kind |-> "nan", num |-> 0, text |-> ""]
Val(n) == [kind |-> "num", num |-> n, text |-> ""]
Str(n, s) == [kind |-> "str", num |-> n, text |-> s]

CsvRow(t, f, nb, ws, wd, wc) ==
    [DateTime |-> t, Filename |-> f, Num_Boxes |-> nb, WindSpeed_kmh |-> ws,
     WindDir_deg |-> wd, WindDir_compass |-> wc]

\* The file names the producer uses, by the text of the Filename cell.
Spelling(text) ==
    CASE text = "a.jpg" -> <<"a", ".", "j", "p", "g">>
      [] text = "b.PNG" -> <<"b", ".", "P", "N", "G">>
      [] text = "c.gif" -> <<"c", ".", "g", "i", "f">>
      [] OTHER -> <<>>

\* The rows the producer may append: a regular detection, and rows that differ
\* from it in the timestamp (unparseable, on the edge of the window at the
\* earlier reading of the clock, in the last hour of the previous day, stamped
\* in the future), in a missing or unparseable field, or in the wind.
BaseRow == CsvRow(NumCell(25), TextCell("a.jpg"), NumCell(2), NumCell(5), NumCell(10), TextCell("N"))
SampleRows ==
    { BaseRow,
      [BaseRow EXCEPT !.DateTime = TextCell("not a date")],
      [BaseRow EXCEPT !.DateTime = NumCell(6)],
      [BaseRow EXCEPT !.DateTime = NumCell(23), !.Filename = TextCell("b.PNG")],
      [BaseRow EXCEPT !.DateTime = NumCell(40)],
      [BaseRow EXCEPT !.Filename = EmptyCell],
      [BaseRow EXCEPT !.Num_Boxes = EmptyCell],
      [BaseRow EXCEPT !.Num_Boxes = TextCell("many"), !.Filename = TextCell("c.gif")],
      [BaseRow EXCEPT !.WindSpeed_kmh = EmptyCell],
      [BaseRow EXCEPT !.WindDir_deg = EmptyCell, !.WindDir_compass = EmptyCell],
      [BaseRow EXCEPT !.WindDir_deg = TextCell("n/a")],
      [BaseRow EXCEPT !.WindDir_deg = TextCell("abc")],
      [BaseRow EXCEPT !.WindDir_deg = NumCell(350)],
      [BaseRow EXCEPT !.WindDir_deg = NumCell(0)],
      [BaseRow EXCEPT !.WindDir_deg = NumCell(90), !.WindDir_compass = TextCell("E")] }

\* Readings of the clock (datetime.now()) at which a pass filters the log.
Nows == {30, 31}
\* Seconds component of the time since the last refresh, as a pass sees it.
ElapsedSeconds == {0, 30, 31}

VARIABLES
    log_exists,     \* os.path.exists(LOG_FILE)
    log_rows,       \* the data rows of LOG_FILE, in file order
    folder_exists,  \* INPUT_FOLDER is there
    folder,         \* INPUT_FOLDER: the set of its entries, each [name, mtime]
    session,        \* st.session_state: the set of keys it holds
    now,            \* the clock reading used by the time-window filter
    pc,             \* position of the script run
    status,         \* how the run ended: "", "ok", "nodata" or the exception raised
    df,             \* the filtered data frame
    shown,          \* Panel 1: captions of the images shown, by grid cell
    df_count,       \* Panel 2: hourly counts chart data
    df_wind,        \* Panel 2: wind speed chart data
    df_map,         \* Panel 3: hotspot aggregates
    fig_map,        \* Panel 3: wind arrows added to the map, one per hotspot
    df_corr,        \* Panel 4: severity against wind speed chart data
    df_dir          \* Panel 4: count by compass direction chart data

vars == <<log_exists, log_rows, folder_exists, folder, session, now, pc, status, df, shown,
          df_count, df_wind, df_map, fig_map, df_corr, df_dir>>
outputs == <<df, shown, df_count, df_wind, df_map, fig_map, df_corr, df_dir>>

\* ---------------------------------------------------------------- helpers
Min(S) == CHOOSE x \in S : \A y \in S : x <= y

RECURSIVE SortedSeq(_)
SortedSeq(S) == IF S = {} THEN <<>> ELSE <<Min(S)>> \o SortedSeq(S \ {Min(S)})

RECURSIVE SumSeq(_)
SumSeq(s) == IF s = <<>> THEN 0 ELSE Head(s) + SumSeq(Tail(s))

Range(s) == {s[i] : i \in 1..Len(s)}

\* --------------------------------------------------------------- load data
\* The strings pd.read_csv reads as a missing value (its default na_values).
NAStrings ==
    {"", "#N/A", "#N/A N/A", "#NA", "-1.#IND", "-1.#QNAN", "-NaN", "-nan",
     "1.#IND", "1.#QNAN", "<NA>", "N/A", "NA", "NULL", "NaN", "None", "n/a",
     "nan", "null"}

IsNA(cell) == cell.kind = "empty" \/ (cell.kind = "text" /\ cell.text \in NAStrings)

\* pd.read_csv, one column: missing values apart, a column holding any text
\* that is no number is an object column whose cells are strings; otherwise
\* it is numeric.  Missing values are NaN in both.
IsObjectColumn(rows, col) ==
    \E i \in 1..Len(rows) : rows[i][col].kind = "text" /\ ~IsNA(rows[i][col])

ParseCell(cell, object) ==
    CASE IsNA(cell) -> NaN
      [] cell.kind = "num" -> IF object THEN Str(cell.num, "") ELSE Val(cell.num)
      [] OTHER -> Str(0, cell.text)

\* pd.to_datetime(..., errors="coerce"): what fails to parse becomes NaT.
to_datetime(cell) == IF cell.kind = "num" THEN Val(cell.num) ELSE NaN

\* Lines 31-32 and 34-35: the frame read from the file, DateTime converted,
\* the default coordinates assigned to every row.
read_csv(rows) ==
    [i \in 1..Len(rows) |->
        [index |-> i,
         DateTime |-> to_datetime(rows[i].DateTime),
         Filename |-> ParseCell(rows[i].Filename, IsObjectColumn(rows, "Filename")),
         Num_Boxes |-> ParseCell(rows[i].Num_Boxes, IsObjectColumn(rows, "Num_Boxes")),
         WindSpeed_kmh |-> ParseCell(rows[i].WindSpeed_kmh, IsObjectColumn(rows, "WindSpeed_kmh")),
         WindDir_deg |-> ParseCell(rows[i].WindDir_deg, IsObjectColumn(rows, "WindDir_deg")),
         WindDir_compass |-> ParseCell(rows[i].WindDir_compass, IsObjectColumn(rows, "WindDir_compass")),
         Latitude |-> DEFAULT_LAT,
         Longitude |-> DEFAULT_LON]]

\* Line 33: df["DateTime"] >= datetime.now() - timedelta(hours=24); a
\* comparison with NaT is False.
InWindow(r, t) == r.DateTime.kind = "num" /\ r.DateTime.num >= t - WindowHours

TimeWindowFilter(frame, t) == SelectSeq(frame, LAMBDA r : InWindow(r, t))

\* dropna with how="all": a row goes only when all of the subset is missing.
dropna_all(frame, subset) == SelectSeq(frame, LAMBDA r : \E c \in subset : r[c].kind # "nan")

dropna(frame, subset) == SelectSeq(frame, LAMBDA r : \A c \in subset : r[c].kind # "nan")

\* ------------------------------------------------- Panel 1: recent images
\* str.lower(), letter by letter.
LowerChar(c) ==
    CASE c = "A" -> "a" [] c = "B" -> "b" [] c = "C" -> "c" [] c = "D" -> "d"
      [] c = "E" -> "e" [] c = "F" -> "f" [] c = "G" -> "g" [] c = "H" -> "h"
      [] c = "I" -> "i" [] c = "J" -> "j" [] c = "K" -> "k" [] c = "L" -> "l"
      [] c = "M" -> "m" [] c = "N" -> "n" [] c = "O" -> "o" [] c = "P" -> "p"
      [] c = "Q" -> "q" [] c = "R" -> "r" [] c = "S" -> "s" [] c = "T" -> "t"
      [] c = "U" -> "u" [] c = "V" -> "v" [] c = "W" -> "w" [] c = "X" -> "x"
      [] c = "Y" -> "y" [] c = "Z" -> "z" [] OTHER -> c

Lower(name) == [i \in 1..Len(name) |-> LowerChar(name[i])]

EndsWith(name, suffix) ==
    /\ Len(name) >= Len(suffix)
    /\ SubSeq(name, Len(name) - Len(suffix) + 1, Len(name)) = suffix

ImageSuffixes ==
    { <<".", "j", "p", "g">>, <<".", "p", "n", "g">>, <<".", "j", "p", "e", "g">> }

\* Line 47, for an entry of the folder (a file or a directory).
IsImage(f) == \E suffix \in ImageSuffixes : EndsWith(Lower(f.name), suffix)

\* sorted(..., key=os.path.getmtime, reverse=True): newest first.  The sort
\* is stable, so entries of equal mtime stay in the order os.listdir gave
\* them, which is arbitrary: every order of them is possible.
ByMtimeDesc(files) ==
    { order \in [1..Cardinality(files) -> files] :
        /\ \A i, j \in 1..Cardinality(files) : i # j => order[i] # order[j]
        /\ \A i, j \in 1..Cardinality(files) : i < j => order[i].mtime >= order[j].mtime }

\* Lines 45-50: the lists image_files can be.
image_files(files) == ByMtimeDesc({f \in files : IsImage(f)})

\* Lines 51-56: the first n_images captions, image i in column i % 3.
RecentImages(imgs) ==
    LET n_images == IF Len(imgs) < MaxShown THEN Len(imgs) ELSE MaxShown
    IN [i \in 1..n_images |-> [column |-> (i - 1) % NumColumns, caption |-> imgs[i].name]]

\* ------------------------------------------ Panel 2: trends and wind speed
Hour(r) == r.DateTime.num % 24

\* The hours of a frame in the order of their first appearance.
RECURSIVE FirstSeenOrder(_, _)
FirstSeenOrder(frame, seen) ==
    IF frame = <<>> THEN <<>>
    ELSE IF Hour(Head(frame)) \in seen THEN FirstSeenOrder(Tail(frame), seen)
    ELSE <<Hour(Head(frame))>> \o FirstSeenOrder(Tail(frame), seen \cup {Hour(Head(frame))})

\* The grouping with sort=False: keys in the order of first appearance.
HourlyCountsUnsorted(frame) ==
    LET hours == FirstSeenOrder(frame, {})
    IN [i \in 1..Len(hours) |->
          [DateTime |-> hours[i],
           Detections |-> Cardinality({j \in 1..Len(frame) : Hour(frame[j]) = hours[i]})]]

\* Line 64: df.groupby(df["DateTime"].dt.hour).size().reset_index(...).  The
\* group keys of a groupby come out sorted (sort=True is the default).
HourlyCounts(frame) ==
    LET hours == SortedSeq({Hour(r) : r \in Range(frame)})
    IN [i \in 1..Len(hours) |->
          [DateTime |-> hours[i],
           Detections |-> Cardinality({j \in 1..Len(frame) : Hour(frame[j]) = hours[i]})]]

\* Lines 63-67: the chart is drawn only for a non-empty frame.
TemporalAggregator(frame) == IF frame # <<>> THEN HourlyCounts(frame) ELSE <<>>

\* Lines 70-74.
WindSeries(frame) ==
    LET w == dropna(frame, {"WindSpeed_kmh"})
    IN [i \in 1..Len(w) |-> [index |-> w[i].index, DateTime |-> w[i].DateTime.num,
                             WindSpeed_kmh |-> w[i].WindSpeed_kmh]]

\* ------------------------------------------------- Panel 3: hotspot map
\* The location keys of a frame in groupby order: sorted by latitude, then
\* by longitude.
LocationBefore(a, b) == a[1] < b[1] \/ (a[1] = b[1] /\ a[2] <= b[2])

RECURSIVE SortedLocations(_)
SortedLocations(S) ==
    IF S = {} THEN <<>>
    ELSE LET first == CHOOSE a \in S : \A b \in S : LocationBefore(a, b)
         IN <<first>> \o SortedLocations(S \ {first})

LocationKey(r) == <<r.Latitude, r.Longitude>>
LocationKeys(frame) == SortedLocations({LocationKey(r) : r \in Range(frame)})

Group(frame, key) == SelectSeq(frame, LAMBDA r : LocationKey(r) = key)

\* ("Filename", "count"): the number of non-null Filename cells of the group.
CountNonNull(g, col) == Cardinality({i \in 1..Len(g) : g[i][col].kind # "nan"})

\* ("WindDir_deg", "mean"): the arithmetic mean of the non-null cells, NaN
\* when there is none.
MeanOf(g, col) ==
    LET have == SelectSeq(g, LAMBDA r : r[col].kind = "num")
    IN [nan |-> have = <<>>,
        sum |-> SumSeq([i \in 1..Len(have) |-> have[i][col].num]),
        cnt |-> Len(have)]

\* The mean of an object column: with a string among the values to average,
\* pandas raises TypeError (the strings do not add up to a number).
MeanRaises(frame, col) ==
    frame # <<>> /\ \E i \in 1..Len(frame) : frame[i][col].kind = "str"

\* Lines 81-84.
Hotspot(g) ==
    [Latitude |-> g[1].Latitude, Longitude |-> g[1].Longitude,
     Emission_Count |-> CountNonNull(g, "Filename"),
     WindDir_deg |-> MeanOf(g, "WindDir_deg")]

SpatialAggregator(frame) ==
    LET ids == LocationKeys(frame)
    IN IF frame # <<>> THEN [i \in 1..Len(ids) |-> Hotspot(Group(frame, ids[i]))] ELSE <<>>

\* sin of whole degrees 0..90, times 10^9.
SinTable ==
    <<0, 17452406, 34899497, 52335956, 69756474, 87155743, 104528463, 121869343,
      139173101, 156434465, 173648178, 190808995, 207911691, 224951054, 241921896, 258819045,
      275637356, 292371705, 309016994, 325568154, 342020143, 358367950, 374606593, 390731128,
      406736643, 422618262, 438371147, 453990500, 469471563, 484809620, 500000000, 515038075,
      529919264, 544639035, 559192903, 573576436, 587785252, 601815023, 615661475, 629320391,
      642787610, 656059029, 669130606, 681998360, 694658370, 707106781, 719339800, 731353702,
      743144825, 754709580, 766044443, 777145961, 788010754, 798635510, 809016994, 819152044,
      829037573, 838670568, 848048096, 857167301, 866025404, 874619707, 882947593, 891006524,
      898794046, 906307787, 913545458, 920504853, 927183855, 933580426, 939692621, 945518576,
      951056516, 956304756, 961261696, 965925826, 970295726, 974370065, 978147601, 981627183,
      984807753, 987688341, 990268069, 992546152, 994521895, 996194698, 997564050, 998629535,
      999390827, 999847695, 1000000000>>

\* a * p / q rounded to the nearest integer, q > 0, without leaving 32 bits.
MulDiv(a, p, q) == (a \div q) * p + ((a % q) * p + q \div 2) \div q

\* sin of d whole degrees, times 10^9.
SinWhole(d) ==
    LET x == d % 360
    IN CASE x <= 90 -> SinTable[x + 1]
         [] x <= 180 -> SinTable[180 - x + 1]
         [] x <= 270 -> 0 - SinTable[x - 180 + 1]
         [] OTHER -> 0 - SinTable[360 - x + 1]

\* np.sin(np.deg2rad(sum / cnt)) times 10^9.  With d the whole degrees and
\* x = p / q the rest in radians (pi taken as 355/113),
\* sin(d + x) = sin d (1 - x^2/2 + x^4/24) + cos d (x - x^3/6), to 3 * 10^-9.
SinDeg(sum, cnt) ==
    LET d == sum \div cnt
        p == 71 * (sum % cnt)
        q == 4068 * cnt
        s0 == SinWhole(d)
        c1 == MulDiv(SinWhole(d + 90), p, q)
        s2 == MulDiv(MulDiv(s0, p, q), p, q)
        c3 == MulDiv(MulDiv(c1, p, q), p, q)
        s4 == MulDiv(MulDiv(s2, p, q), p, q)
    IN s0 + c1 - (s2 \div 2) - (c3 \div 6) + (s4 \div 24)

CosDeg(sum, cnt) == SinDeg(sum + 90 * cnt, cnt)

\* A coordinate computed in floating point: NaN, or micro-degrees.
Coord(v) == [nan |-> FALSE, v |-> v]
NaNCoord == [nan |-> TRUE, v |-> 0]

\* scale * t, for a sine or cosine t (times 10^9), to the nearest micro-degree.
Displacement(t) == MulDiv(MulDiv(t, scale, 1000), 1, 1000000)

\* The end of the arrow with sine and cosine exchanged.
EndLatSwapped(lat0, deg) ==
    IF deg.nan THEN NaNCoord ELSE Coord(lat0 + Displacement(SinDeg(deg.sum, deg.cnt)))

\* Lines 108-114: the end of the arrow line.  Arithmetic on NaN gives NaN.
EndLat(lat0, deg) ==
    IF deg.nan THEN NaNCoord ELSE Coord(lat0 + Displacement(CosDeg(deg.sum, deg.cnt)))

EndLon(lon0, deg) ==
    IF deg.nan THEN NaNCoord ELSE Coord(lon0 + Displacement(SinDeg(deg.sum, deg.cnt)))

\* Lines 107-137: the line and the arrowhead added for one row of df_map.
WindVectorProjector(row) ==
    [lat0 |-> row.Latitude, lon0 |-> row.Longitude,
     lat1 |-> EndLat(row.Latitude, row.WindDir_deg),
     lon1 |-> EndLon(row.Longitude, row.WindDir_deg),
     angle |-> row.WindDir_deg,
     size |-> arrow_size]

WindArrows(hotspots) == [i \in 1..Len(hotspots) |-> WindVectorProjector(hotspots[i])]

\* ---------------------------------------------------- Panel 4: analytics
\* Lines 158-162.
SeverityPairs(frame) ==
    LET c == dropna(frame, {"Num_Boxes", "WindSpeed_kmh"})
    IN [i \in 1..Len(c) |-> [index |-> c[i].index, WindSpeed_kmh |-> c[i].WindSpeed_kmh,
                             Num_Boxes |-> c[i].Num_Boxes]]

\* The compass labels that occur, in string order.
CompassLabels == <<"E", "N">>

\* Lines 165-168: groupby drops the rows whose key is NaN and sorts the keys.
DirectionHistogram(frame) ==
    LET present == SelectSeq(CompassLabels,
                     LAMBDA l : \E i \in 1..Len(frame) :
                         /\ frame[i].WindDir_compass.kind = "str"
                         /\ frame[i].WindDir_compass.text = l)
    IN [k \in 1..Len(present) |->
          [WindDir_compass |-> present[k],
           Count |-> Cardinality({i \in 1..Len(frame) :
                        /\ frame[i].WindDir_compass.kind = "str"
                        /\ frame[i].WindDir_compass.text = present[k]})]]

\* ------------------------------------------------------------- the script
NoOutputs ==
    /\ df = <<>> /\ shown = <<>> /\ df_count = <<>> /\ df_wind = <<>>
    /\ df_map = <<>> /\ fig_map = <<>> /\ df_corr = <<>> /\ df_dir = <<>>

Init ==
    /\ log_exists = FALSE
    /\ log_rows = <<>>
    /\ folder_exists = FALSE
    /\ folder = {}
    /\ session = {}
    /\ now \in Nows
    /\ pc = "start"
    /\ status = ""
    /\ NoOutputs

\* The producer creates the log, with its header line.
CreateLog ==
    /\ ~log_exists
    /\ log_exists' = TRUE
    /\ UNCHANGED <<log_rows, folder_exists, folder, session, now, pc, status, outputs>>

\* The producer creates the image folder.
CreateFolder ==
    /\ ~folder_exists
    /\ folder_exists' = TRUE
    /\ UNCHANGED <<log_exists, log_rows, folder, session, now, pc, status, outputs>>

\* The producer appends one detection and saves its image, if the row names
\* one, under that name in the folder (which it creates when missing).  The
\* file's mtime is the tick of the file system's clock at the save; the clock
\* is coarse, the first and the second save fall into the same tick, the third
\* into the next.
AppendRow ==
    /\ log_exists
    /\ Len(log_rows) < MaxRows
    /\ \E row \in SampleRows :
          /\ log_rows' = Append(log_rows, row)
          /\ IF row.Filename.kind = "text"
             THEN /\ folder_exists' = TRUE
                  /\ folder' = {f \in folder : f.name # Spelling(row.Filename.text)}
                                 \cup {[name |-> Spelling(row.Filename.text),
                                        mtime |-> Len(log_rows) \div 2]}
             ELSE UNCHANGED <<folder_exists, folder>>
    /\ UNCHANGED <<log_exists, session, now, pc, status, outputs>>

\* Lines 16-24: page setup and auto-refresh.  The first run of a session
\* stores last_refresh; a later run that finds more than
\* AUTO_REFRESH_INTERVAL seconds elapsed stores it again and restarts the
\* script.  The clock is read here.
StartPass ==
    /\ pc = "start"
    /\ \E t \in Nows : now' = t
    /\ IF "last_refresh" \notin session
       THEN /\ session' = session \cup {"last_refresh"}
            /\ pc' = "load"
       ELSE /\ session' = session
            /\ \E elapsed \in ElapsedSeconds :
                  pc' = IF elapsed > AUTO_REFRESH_INTERVAL THEN "start" ELSE "load"
    /\ UNCHANGED <<log_exists, log_rows, folder_exists, folder, status, outputs>>

\* Lines 27-35: a missing log stops the run with a warning; otherwise the log
\* is read, the timestamps are converted and the last 24 hours are kept.
LoadData ==
    /\ pc = "load"
    /\ IF ~log_exists
       THEN /\ status' = "nodata"
            /\ pc' = "stopped"
            /\ df' = df
       ELSE /\ df' = TimeWindowFilter(read_csv(log_rows), now)
            /\ pc' = "panel1"
            /\ status' = status
    /\ UNCHANGED <<log_exists, log_rows, folder_exists, folder, session, now, shown,
                   df_count, df_wind, df_map, fig_map, df_corr, df_dir>>

\* Lines 42-58.  os.listdir raises FileNotFoundError on a missing folder,
\* which ends the run.
Panel1 ==
    /\ pc = "panel1"
    /\ IF ~folder_exists
       THEN /\ pc' = "error"
            /\ status' = "FileNotFoundError"
            /\ shown' = shown
       ELSE /\ \E imgs \in image_files(folder) : shown' = RecentImages(imgs)
            /\ pc' = "panel2"
            /\ status' = status
    /\ UNCHANGED <<log_exists, log_rows, folder_exists, folder, session, now, df,
                   df_count, df_wind, df_map, fig_map, df_corr, df_dir>>

\* Lines 61-74.
Panel2 ==
    /\ pc = "panel2"
    /\ df_count' = TemporalAggregator(df)
    /\ df_wind' = WindSeries(df)
    /\ pc' = "panel3"
    /\ UNCHANGED <<log_exists, log_rows, folder_exists, folder, session, now, status,
                   df, shown, df_map, fig_map, df_corr, df_dir>>

\* Lines 77-146.  The aggregation raises TypeError on a WindDir_deg column of
\* strings, which ends the run.
Panel3 ==
    /\ pc = "panel3"
    /\ IF MeanRaises(df, "WindDir_deg")
       THEN /\ pc' = "error"
            /\ status' = "TypeError"
            /\ UNCHANGED <<df_map, fig_map>>
       ELSE /\ df_map' = SpatialAggregator(df)
            /\ fig_map' = WindArrows(SpatialAggregator(df))
            /\ pc' = "panel4"
            /\ status' = status
    /\ UNCHANGED <<log_exists, log_rows, folder_exists, folder, session, now, df,
                   shown, df_count, df_wind, df_corr, df_dir>>

\* Lines 149-171.
Panel4 ==
    /\ pc = "panel4"
    /\ df_corr' = SeverityPairs(df)
    /\ df_dir' = DirectionHistogram(df)
    /\ pc' = "done"
    /\ status' = "ok"
    /\ UNCHANGED <<log_exists, log_rows, folder_exists, folder, session, now, df,
                   shown, df_count, df_wind, df_map, fig_map>>

\* The next run of the script starts from an empty page.
Rerun ==
    /\ pc \in {"done", "stopped", "error"}
    /\ pc' = "start"
    /\ status' = ""
    /\ df' = <<>> /\ shown' = <<>> /\ df_count' = <<>> /\ df_wind' = <<>>
    /\ df_map' = <<>> /\ fig_map' = <<>> /\ df_corr' = <<>> /\ df_dir' = <<>>
    /\ UNCHANGED <<log_exists, log_rows, folder_exists, folder, session, now>>

Next ==
    \/ CreateLog
    \/ CreateFolder
    \/ AppendRow
    \/ StartPass
    \/ LoadData
    \/ Panel1
    \/ Panel2
    \/ Panel3
    \/ Panel4
    \/ Rerun

Spec == Init /\ [][Next]_vars

TypeOK ==
    /\ log_exists \in BOOLEAN
    /\ folder_exists \in BOOLEAN
    /\ Len(log_rows) <= MaxRows
    /\ now \in Nows
    /\ pc \in {"start", "load", "stopped", "panel1", "panel2", "panel3", "panel4", "error", "done"}
    /\ status \in {"", "ok", "nodata", "FileNotFoundError", "TypeError"}

\* ------------------------------------------------------------ properties
\* The steps of a run that come after the log was read and filtered.
AfterLoad == pc \in {"panel1", "panel2", "panel3", "panel4", "done", "error"}
\* The steps of a run that come after Panel 2 built its tables.
AfterTrends == pc \in {"panel3", "panel4", "done"} \/ (pc = "error" /\ status = "TypeError")
\* The steps of a run that come after Panel 3 built the map.
AfterMap == pc \in {"panel4", "done"}

\* Every retained record has a valid timestamp not older than the window.
RetainedSinceWindowStart ==
    \A i \in 1..Len(df) :
       df[i].DateTime.kind = "num" /\ now - WindowHours <= df[i].DateTime.num

\* The part of C1 that holds: the frame the filter hands on is a subsequence
\* of the frame read from the log, and every retained record has a valid
\* timestamp t with now - window <= t.
RetainedSubsetSinceWindowStart ==
    /\ [](AfterLoad => RetainedSinceWindowStart)
    /\ [][(pc = "load" /\ pc' = "panel1") =>
            /\ \A i \in 1..Len(df') :
                  /\ df'[i].index \in 1..Len(log_rows)
                  /\ df'[i] = read_csv(log_rows)[df'[i].index]
            /\ \A i, j \in 1..Len(df') : i < j => df'[i].index < df'[j].index]_vars

\* C1: every record the filter retains has a valid timestamp t with
\* now - window <= t <= now, so that no record stamped later than now and no
\* record with an invalid timestamp is retained.
C1_RetainedWithinWindow ==
    AfterLoad =>
      /\ RetainedSinceWindowStart
      /\ \A i \in 1..Len(df) : df[i].DateTime.num <= now

\* The bearings of the records of a frame that have one.
Bearings(g) ==
    LET have == SelectSeq(g, LAMBDA r : r.WindDir_deg.kind = "num")
    IN [i \in 1..Len(have) |-> have[i].WindDir_deg.num]

\* Twice the circular mean of two bearings that are not opposite: the
\* bisector of the shorter arc between them.
TwiceCircularMean(a, b) ==
    IF a - b < 180 /\ b - a < 180 THEN a + b ELSE (a + b + 360) % 720

\* C2: the mean bearing of a hotspot is the circular mean of the bearings of
\* its group; stated for groups of one bearing (the mean is that bearing) and
\* of two bearings that are not opposite (the mean bisects the shorter arc),
\* so that bearings 350 and 10 have mean 0.
C2_CircularMean ==
    \A i \in 1..Len(df_map) :
       LET h == df_map[i]
           b == Bearings(Group(df, <<h.Latitude, h.Longitude>>))
       IN /\ Len(b) = 1 => (~h.WindDir_deg.nan /\ h.WindDir_deg.sum = b[1] * h.WindDir_deg.cnt)
          /\ (Len(b) = 2 /\ b[1] - b[2] # 180 /\ b[2] - b[1] # 180) =>
                /\ ~h.WindDir_deg.nan
                /\ 2 * h.WindDir_deg.sum = TwiceCircularMean(b[1], b[2]) * h.WindDir_deg.cnt

\* C3: every location of the filtered frame has a hotspot, and the hotspot's
\* count is the number of filtered records at that location, whatever fields
\* they lack.
C3_CountIsCardinality ==
    AfterMap =>
      /\ \A j \in 1..Len(df) : \E i \in 1..Len(df_map) :
            <<df_map[i].Latitude, df_map[i].Longitude>> = LocationKey(df[j])
      /\ \A i \in 1..Len(df_map) :
            df_map[i].Emission_Count =
               Len(Group(df, <<df_map[i].Latitude, df_map[i].Longitude>>))

\* C4: a hotspot without a mean bearing gets no wind arrow, a hotspot with
\* one gets its arrow.
C4_NoArrowWithoutBearing ==
    AfterMap =>
      \A i \in 1..Len(df_map) :
         (\E k \in 1..Len(fig_map) :
             /\ fig_map[k].lat0 = df_map[i].Latitude
             /\ fig_map[k].lon0 = df_map[i].Longitude)
           <=> ~df_map[i].WindDir_deg.nan

NumericColumns == {"Num_Boxes", "WindSpeed_kmh", "WindDir_deg"}

\* A record of the frame that comes from a row with a numeric field that
\* failed to parse (rows whose timestamp failed have DateTime = NaT).
Malformed(r) ==
    \/ r.DateTime.kind # "num"
    \/ \E c \in NumericColumns : r[c].kind = "str" /\ r[c].text # ""

\* The record as read from a log without malformed rows: numeric columns
\* hold numbers.
AsNumbers(r) ==
    [c \in DOMAIN r |->
       IF c \in NumericColumns /\ r[c].kind = "str" THEN Val(r[c].num) ELSE r[c]]

\* The frame without the records of malformed rows.
WellFormedFrame ==
    LET kept == SelectSeq(df, LAMBDA r : ~Malformed(r))
    IN [i \in 1..Len(kept) |-> AsNumbers(kept[i])]

ValuesOf(pairs) == [i \in 1..Len(pairs) |-> <<pairs[i].WindSpeed_kmh, pairs[i].Num_Boxes>>]

\* C5: no malformed row of the log reaches the aggregators, a malformed row
\* does not abort the run, and the four tables of a finished run are those of
\* the log without its malformed rows.
C5_MalformedRowsExcluded ==
    /\ AfterLoad => \A i \in 1..Len(df) : ~Malformed(df[i])
    /\ status # "TypeError"
    /\ pc = "done" =>
         /\ df_count = TemporalAggregator(WellFormedFrame)
         /\ df_map = SpatialAggregator(WellFormedFrame)
         /\ ValuesOf(df_corr) = ValuesOf(SeverityPairs(WellFormedFrame))
         /\ df_dir = DirectionHistogram(WellFormedFrame)

\* C6: a run that finds no log ends in the "no data" state, without an
\* exception and with nothing read, filtered, aggregated or projected; and
\* every run either completes or stops at the missing-file check.
C6_StopsOrCompletes ==
    /\ pc = "stopped" => (status = "nodata" /\ NoOutputs)
    /\ pc # "error"

\* The part of C6 about the missing file: the load step stops the run in the
\* "no data" state when there is no log, and hands a frame to the panels when
\* there is one.
MissingLogStops ==
    /\ [](pc = "stopped" => (status = "nodata" /\ NoOutputs))
    /\ [][pc = "load" /\ pc' # "load" =>
            IF log_exists THEN pc' = "panel1" /\ status' # "nodata"
            ELSE pc' = "stopped" /\ status' = "nodata" /\ UNCHANGED outputs]_vars

\* The position in the frame of the first record with hour h.
FirstSeen(frame, h) == Min({j \in 1..Len(frame) : Hour(frame[j]) = h})

\* One pair per hour that occurs among the filtered records, with the number
\* of records of that hour.
HourlyPairsCorrect ==
    /\ \A j \in 1..Len(df) : \E i \in 1..Len(df_count) : df_count[i].DateTime = Hour(df[j])
    /\ \A i \in 1..Len(df_count) :
          /\ df_count[i].DateTime \in 0..23
          /\ df_count[i].Detections >= 1
          /\ df_count[i].Detections =
                Cardinality({j \in 1..Len(df) : Hour(df[j]) = df_count[i].DateTime})
    /\ \A i, k \in 1..Len(df_count) : i # k => df_count[i].DateTime # df_count[k].DateTime

\* C7 (as amended): the hourly table has one pair per hour that occurs, with
\* the right count, and the pairs are in ascending order of the hour.
C7_HourlyAscending ==
    AfterTrends =>
      /\ HourlyPairsCorrect
      /\ \A i, k \in 1..Len(df_count) : i < k => df_count[i].DateTime < df_count[k].DateTime

\* C7 as stated: the pairs are in the order in which the hours first appear.
C7_HourlyFirstSeen ==
    AfterTrends =>
      /\ HourlyPairsCorrect
      /\ \A i, k \in 1..Len(df_count) :
            i < k => FirstSeen(df, df_count[i].DateTime) < FirstSeen(df, df_count[k].DateTime)

\* A table of two hours in which the later-seen hour comes first.
C7_AscendingNotFirstSeen ==
    /\ AfterTrends
    /\ Len(df_count) >= 2
    /\ FirstSeen(df, df_count[1].DateTime) > FirstSeen(df, df_count[2].DateTime)

NoTables ==
    /\ df_count = <<>> /\ df_wind = <<>>
    /\ df_map = <<>> /\ fig_map = <<>>
    /\ df_corr = <<>> /\ df_dir = <<>>

\* C8: when the filter retains nothing, the run completes without an
\* exception, no table has a row and no arrow is drawn.
C8_EmptyWindowCompletes ==
    (AfterLoad /\ df = <<>>) => (NoTables /\ pc # "error")

\* The part of C8 about Panels 2 to 4: over an empty frame they build no row
\* and no arrow and raise nothing; a run that got past the image scan
\* finishes.
EmptyWindowEmptyTables ==
    /\ [](df = <<>> => (NoTables /\ status # "TypeError"))
    /\ [][(df = <<>> /\ pc \in {"panel2", "panel3", "panel4"} /\ pc' # pc) =>
             pc' \in {"panel3", "panel4", "done"}]_vars

\* The distance of v from t * scale / 10^9 is at most half a micro-degree.
WithinHalf(v, t) ==
    LET d == 2 * (v * 1000000 - MulDiv(t, scale, 1000))
    IN d >= 0 - 1000000 /\ d <= 1000000

\* C9: the arrow of a hotspot starts at the hotspot, carries the mean bearing
\* unchanged as its angle and, for a defined bearing b, ends at
\* (lat0 + scale * cos b, lon0 + scale * sin b); bearing 0 from
\* (30.767, 76.575) ends at (30.768, 76.575), bearing 90 at (30.767, 76.576),
\* bearing 100/3 at (30.767835, 76.575550).
C9_ArrowEndpoint ==
    AfterMap =>
      /\ Len(fig_map) = Len(df_map)
      /\ \A k \in 1..Len(fig_map) :
           LET v == fig_map[k]
               b == df_map[k].WindDir_deg
           IN /\ v.lat0 = df_map[k].Latitude /\ v.lon0 = df_map[k].Longitude
              /\ v.angle = b
              /\ ~b.nan =>
                   /\ ~v.lat1.nan /\ ~v.lon1.nan
                   /\ WithinHalf(v.lat1.v - v.lat0, CosDeg(b.sum, b.cnt))
                   /\ WithinHalf(v.lon1.v - v.lon0, SinDeg(b.sum, b.cnt))
                   /\ (b.sum = 0 /\ v.lat0 = 30767000 /\ v.lon0 = 76575000) =>
                         (v.lat1.v = 30768000 /\ v.lon1.v = 76575000)
                   /\ (b.sum = 90 * b.cnt /\ v.lat0 = 30767000 /\ v.lon0 = 76575000) =>
                         (v.lat1.v = 30767000 /\ v.lon1.v = 76576000)
                   /\ (3 * b.sum = 100 * b.cnt /\ v.lat0 = 30767000 /\ v.lon0 = 76575000) =>
                         (v.lat1.v = 30767835 /\ v.lon1.v = 76575550)

\* An arrow of bearing 90 drawn from the default site.
C9_ArrowEast ==
    /\ AfterMap
    /\ \E k \in 1..Len(fig_map) :
          /\ ~fig_map[k].angle.nan
          /\ fig_map[k].angle.sum = 90 * fig_map[k].angle.cnt
          /\ fig_map[k].lat1.v = 30767000 /\ fig_map[k].lon1.v = 76576000

\* C10: the severity table of a finished run has one pair for each filtered
\* record in which Num_Boxes and WindSpeed_kmh are both present, with that
\* record's values, and no pair for any other record.
C10_SeverityPairsComplete ==
    pc = "done" =>
      /\ \A j \in 1..Len(df) :
            Cardinality({i \in 1..Len(df_corr) : df_corr[i].index = df[j].index}) =
               IF df[j].Num_Boxes.kind # "nan" /\ df[j].WindSpeed_kmh.kind # "nan" THEN 1 ELSE 0
      /\ \A i \in 1..Len(df_corr) :
            /\ df_corr[i].Num_Boxes.kind # "nan"
            /\ df_corr[i].WindSpeed_kmh.kind # "nan"
            /\ \E j \in 1..Len(df) :
                  /\ df[j].index = df_corr[i].index
                  /\ df[j].Num_Boxes = df_corr[i].Num_Boxes
                  /\ df[j].WindSpeed_kmh = df_corr[i].WindSpeed_kmh

\* A finished run that paired some records and left out one without Num_Boxes
\* and one without WindSpeed_kmh.
C10_RecordsLeftOut ==
    /\ pc = "done"
    /\ df_corr # <<>>
    /\ \E j \in 1..Len(df) : df[j].Num_Boxes.kind = "nan"
    /\ \E j \in 1..Len(df) : df[j].WindSpeed_kmh.kind = "nan"

====
